---- MODULE Spec2Model ----
(***************************************************************************)
(* A model of cc-yaml: YamlParser.validate_config, YamlParser.validate_field *)
(* and YamlParser.get_checker_class (src/cc_yaml/yaml_parser.py), with the  *)
(* check implementations of src/cc_yaml/tests.py as the plugins that a     *)
(* configuration can name.                                                 *)
(*                                                                         *)
(* Python values are tagged records [type, val].  Text is a sequence of    *)
(* tokens in which "." is a token of its own, so that str.split(".") and   *)
(* ".".join(...) are computed.  A dict is a function from its keys; a key   *)
(* is absent when it is not in the DOMAIN.  isinstance is equality of the  *)
(* tag: no value of the model belongs to a subclass of another tag.        *)
(* The dicts that the code iterates over (required_global, ...,            *)
(* required_parameters) are sequences of pairs in insertion order, the     *)
(* order in which Python 3.7 and later iterate over a dict.                *)
(***************************************************************************)
EXTENDS Integers, Sequences, FiniteSets, TLC

VARIABLES
    pc,                 \* "idle", "loop" (inside the for loop of get_checker_class), "returned", "raised"
    op,                 \* the classmethod that was called: "none", "validate_config", "get_checker_class"
    config,             \* the configuration dict of the call
    exc,                \* the exception that left the call, or NoExc
    i,                  \* 1-based position of the for loop over config["checks"]
    class_properties,   \* method name -> function object inner
    supported_ds_sets,  \* the list of sets collected by the loop
    check_instance,     \* the loop variable check_instance (None before the first instantiation)
    imports,            \* log of the names passed to importlib.import_module
    ctor_calls,         \* log of the calls check_cls(params, level=level_str)
    result              \* the generated type, or None

vars == <<pc, op, config, exc, i, class_properties, supported_ds_sets,
          check_instance, imports, ctor_calls, result>>

\* Longest list of check entries in an input configuration.
MaxChecks == 2

---------------------------------------------------------------------------
\* Python values

PyStr(tokens) == [type |-> "str", val |-> tokens]

PyInt(n) == [type |-> "int", val |-> n]

PyList(items) == [type |-> "list", val |-> items]

PyTuple(items) == [type |-> "tuple", val |-> items]

PyDict(m) == [type |-> "dict", val |-> m]

None == [type |-> "NoneType", val |-> 0]

EmptyDict == <<>>

isinstance(v, val_type) == v.type = val_type

Range(s) == {s[k] : k \in DOMAIN s}

\* dict.update: the keys of b overwrite those of a
update(a, b) == [k \in (DOMAIN a) \cup (DOMAIN b) |-> IF k \in DOMAIN b THEN b[k] ELSE a[k]]

---------------------------------------------------------------------------
\* Exceptions

NoExc == [kind |-> "none", msg |-> <<>>]

Raise(kind, msg) == [kind |-> kind, msg |-> msg]

---------------------------------------------------------------------------
\* YamlParser.validate_field

\* a validate_field that reports a value of the wrong type as a ValueError
validate_field_value_error(key, val_type, d, required) ==
    IF required /\ key \notin DOMAIN d
    THEN Raise("ValueError", <<"Required key '", key, "' not present">>)
    ELSE IF key \in DOMAIN d /\ ~isinstance(d[key], val_type)
    THEN Raise("ValueError", <<"Value for field '", key, "' is not of type '", val_type, "'">>)
    ELSE NoExc

validate_field(key, val_type, d, required) ==
    IF required /\ key \notin DOMAIN d
    THEN Raise("ValueError", <<"Required key '", key, "' not present">>)
    ELSE IF key \in DOMAIN d /\ ~isinstance(d[key], val_type)
    THEN Raise("TypeError", <<"Value for field '", key, "' is not of type '", val_type, "'">>)
    ELSE NoExc

\* for f_name, f_type in fields.items(): cls.validate_field(f_name, f_type, d, required)
\* The first exception leaves the loop.
RECURSIVE validate_fields(_, _, _, _)
validate_fields(fields, d, required, k) ==
    IF k > Len(fields) THEN NoExc
    ELSE LET r == validate_field(fields[k][1], fields[k][2], d, required)
         IN  IF r # NoExc THEN r ELSE validate_fields(fields, d, required, k + 1)

---------------------------------------------------------------------------
\* YamlParser.validate_config

\* The dicts of validate_config, in insertion order.
required_global == << <<"checks", "list">>, <<"suite_name", "str">> >>

required_percheck == << <<"check_id", "str">>, <<"parameters", "dict">>, <<"check_name", "str">> >>

optional_percheck == << <<"check_level", "str">> >>

\* allowed levels that leave "LOW" out
allowed_levels_short == << <<"HIGH">>, <<"MEDIUM">> >>

allowed_levels == << <<"HIGH">>, <<"MEDIUM">>, <<"LOW">> >>

\* a body that takes check_level for a required field
validate_check_info_level_required(check_info) ==
    LET r == validate_fields(required_percheck, check_info, TRUE, 1)
        o == validate_fields(optional_percheck, check_info, TRUE, 1)
    IN  IF r # NoExc THEN r
        ELSE IF o # NoExc THEN o
        ELSE IF "check_level" \in DOMAIN check_info
                /\ check_info["check_level"].val \notin Range(allowed_levels)
        THEN Raise("ValueError", <<"Check level must be one of ", "HIGH", ", ", "MEDIUM", ", ", "LOW">>)
        ELSE NoExc

\* a body that does not look at the value of check_level
validate_check_info_any_level(check_info) ==
    LET r == validate_fields(required_percheck, check_info, TRUE, 1)
        o == validate_fields(optional_percheck, check_info, FALSE, 1)
    IN  IF r # NoExc THEN r
        ELSE IF o # NoExc THEN o
        ELSE NoExc

\* The body of the loop over config["checks"], for one entry.
validate_check_info(check_info) ==
    LET r == validate_fields(required_percheck, check_info, TRUE, 1)
        o == validate_fields(optional_percheck, check_info, FALSE, 1)
    IN  IF r # NoExc THEN r
        ELSE IF o # NoExc THEN o
        ELSE IF "check_level" \in DOMAIN check_info
                /\ check_info["check_level"].val \notin Range(allowed_levels)
        THEN Raise("ValueError", <<"Check level must be one of ", "HIGH", ", ", "MEDIUM", ", ", "LOW">>)
        ELSE NoExc

RECURSIVE validate_checks(_, _)
validate_checks(checks, k) ==
    IF k > Len(checks) THEN NoExc
    ELSE LET r == validate_check_info(checks[k])
         IN  IF r # NoExc THEN r ELSE validate_checks(checks, k + 1)

\* a validate_config that accepts an empty list of checks
validate_config_no_empty_check(cfg) ==
    LET g == validate_fields(required_global, cfg, TRUE, 1)
    IN  IF g # NoExc THEN g
        ELSE validate_checks(cfg["checks"].val, 1)

validate_config(cfg) ==
    LET g == validate_fields(required_global, cfg, TRUE, 1)
    IN  IF g # NoExc THEN g
        ELSE LET c == validate_checks(cfg["checks"].val, 1)
             IN  IF c # NoExc THEN c
                 ELSE IF Len(cfg["checks"].val) = 0
                 THEN Raise("ValueError", <<"List of checks cannot be empty">>)
                 ELSE NoExc

---------------------------------------------------------------------------
\* Input configurations

\* The dicts that hold key k with one of the values vs, or do not hold it.
Opt(k, vs) == {EmptyDict} \cup {k :> v : v \in vs}

Has(k, vs) == {k :> v : v \in vs}

\* Lists of at most n elements of S
RECURSIVE ListsUpTo(_, _)
ListsUpTo(S, n) ==
    IF n = 0 THEN {<<>>}
    ELSE LET shorter == ListsUpTo(S, n - 1)
         IN  shorter \cup {Append(l, e) : l \in {s \in shorter : Len(s) = n - 1}, e \in S}

IdChoices == {PyStr(<<"one">>), PyDict(EmptyDict)}

ParamChoices == {PyDict(EmptyDict), PyInt(0)}

NameChoices == {PyStr(<<"blah">>), PyInt(0)}

LevelChoices == {PyStr(<<"HIGH">>), PyStr(<<"MEDIUM">>), PyStr(<<"LOW">>), PyStr(<<"FOO">>), PyInt(1)}

\* Check entries given to validate_config: every combination of a missing, an
\* ill-typed or a good check_id, parameters and check_name, and every
\* check_level beside a missing, an ill-typed or a good check_id.
ValidateEntries ==
    {a @@ b @@ c : a \in Opt("check_id", IdChoices),
                   b \in Opt("parameters", ParamChoices),
                   c \in Opt("check_name", NameChoices)}
    \cup
    {a @@ b @@ c @@ d : a \in Opt("check_id", IdChoices),
                        b \in Has("parameters", {PyDict(EmptyDict)}),
                        c \in Has("check_name", {PyStr(<<"blah">>)}),
                        d \in Opt("check_level", LevelChoices)}

SuiteNameChoices == {PyStr(<<"hello">>), PyTuple(<<"this", "is", "not", "a", "string">>)}

\* Configurations given to validate_config
ValidateInputs ==
    {a @@ b : a \in Opt("checks", {PyStr(<<"oops">>)} \cup {PyList(l) : l \in ListsUpTo(ValidateEntries, 1)}),
              b \in Opt("suite_name", SuiteNameChoices)}
    \cup
    {a @@ b : a \in Has("checks", {PyList(l) : l \in ListsUpTo(ValidateEntries, MaxChecks)}),
              b \in Has("suite_name", {PyStr(<<"hello">>)})}

---------------------------------------------------------------------------
\* The check implementations a configuration can name (src/cc_yaml/tests.py).
\* defaults and supported_ds, where a class does not set them, are those of
\* the base ParameterisableCheckBase, taken to be empty.  A class has the
\* attribute required_parameters only when "required_parameters" is in its
\* DOMAIN.

SupportDsTestCheckClass1 ==
    [name |-> "SupportDsTestCheckClass1", defaults |-> EmptyDict, supported_ds |-> <<1, 2, 3>>]

SupportDsTestCheckClass2 ==
    [name |-> "SupportDsTestCheckClass2", defaults |-> EmptyDict, supported_ds |-> <<2, 3, 4>>]

RequiredParamsTestCheckClass ==
    [name |-> "RequiredParamsTestCheckClass", defaults |-> EmptyDict, supported_ds |-> <<>>,
     required_parameters |-> << <<"one", "str">>, <<"two", "list">>, <<"three", "dict">>, <<"four", "int">> >>]

DefaultParamsTestCheckClass ==
    [name |-> "DefaultParamsTestCheckClass", defaults |-> ("one" :> PyStr(<<"hello">>)),
     supported_ds |-> <<>>,
     required_parameters |-> << <<"one", "str">> >>]

\* The importable modules: dotted name -> member name -> class
Modules ==
    <<"cc_yaml", ".", "tests">> :>
        (<<"SupportDsTestCheckClass1">> :> SupportDsTestCheckClass1
         @@ <<"SupportDsTestCheckClass2">> :> SupportDsTestCheckClass2
         @@ <<"RequiredParamsTestCheckClass">> :> RequiredParamsTestCheckClass
         @@ <<"DefaultParamsTestCheckClass">> :> DefaultParamsTestCheckClass)

\* TestYamlParsing.get_import_string
get_import_string(cls) == <<"cc_yaml", ".", "tests", ".", cls>>

\* do_check of an instance: DefaultParamsTestCheckClass returns its parameter
\* "one"; the result of the base class's do_check is not in the source and is
\* kept as a value that names the instance it was called on.
do_check(self, ds) ==
    IF self.cls = "DefaultParamsTestCheckClass"
    THEN self.kwargs["one"]
    ELSE [type |-> "Result", val |-> <<self.cls, self.id, ds>>]

---------------------------------------------------------------------------
\* Text and the resolution of check_name

\* str.split(sep)
RECURSIVE split(_, _)
split(text, sep) ==
    IF \A k \in 1..Len(text) : text[k] # sep THEN <<text>>
    ELSE LET k == CHOOSE k \in 1..Len(text) : text[k] = sep /\ \A j \in 1..(k - 1) : text[j] # sep
         IN  <<SubSeq(text, 1, k - 1)>> \o split(SubSeq(text, k + 1, Len(text)), sep)

\* sep.join(parts)
RECURSIVE join(_, _)
join(sep, parts) ==
    IF Len(parts) = 0 THEN <<>>
    ELSE IF Len(parts) = 1 THEN parts[1]
    ELSE parts[1] \o <<sep>> \o join(sep, Tail(parts))

\* importlib.import_module(name): [exc, module]
import_module(name) ==
    IF name = <<>> THEN [exc |-> Raise("ValueError", <<"Empty module name">>), module |-> EmptyDict]
    ELSE IF name \notin DOMAIN Modules
    THEN [exc |-> Raise("ImportError", <<"No module named '">> \o name \o <<"'">>), module |-> EmptyDict]
    ELSE [exc |-> NoExc, module |-> Modules[name]]

\* Lines 42-44: parts = check_name.split("."), the import and the getattr.
\* [exc, name: the name given to import_module, cls: the class found]
resolve(check_name) ==
    LET parts == split(check_name, ".")
        name == join(".", SubSeq(parts, 1, Len(parts) - 1))
        m == import_module(name)
        member == parts[Len(parts)]
    IN  IF m.exc # NoExc THEN [exc |-> m.exc, name |-> name, cls |-> SupportDsTestCheckClass1]
        ELSE IF member \notin DOMAIN m.module
        THEN [exc |-> Raise("AttributeError", <<"module has no attribute '">> \o member \o <<"'">>),
              name |-> name, cls |-> SupportDsTestCheckClass1]
        ELSE [exc |-> NoExc, name |-> name, cls |-> m.module[member]]

---------------------------------------------------------------------------
\* The body of the for loop of get_checker_class

hasattr(check_cls, attr) == attr \in DOMAIN check_cls

\* a merge in which the defaults overwrite the parameters of the entry
merged_params_defaults_win(check_cls, check_info) ==
    update(update(EmptyDict, check_info["parameters"].val), check_cls.defaults)

\* Lines 47-49: params = {}; params.update(defaults); params.update(parameters)
merged_params(check_cls, check_info) ==
    update(update(EmptyDict, check_cls.defaults), check_info["parameters"].val)

\* a check that raises every failure again as a ValueError
validate_params_value_error(check_cls, params) ==
    IF hasattr(check_cls, "required_parameters")
    THEN LET ex == validate_fields(check_cls.required_parameters, params, TRUE, 1)
         IN  IF ex # NoExc
             THEN Raise("ValueError", <<"Invalid parameters in YAML file: ">> \o ex.msg)
             ELSE NoExc
    ELSE NoExc

\* Lines 50-56: the required parameters against params; the exception is
\* raised again, of the same class, with a longer message.
validate_params(check_cls, params) ==
    IF hasattr(check_cls, "required_parameters")
    THEN LET ex == validate_fields(check_cls.required_parameters, params, TRUE, 1)
         IN  IF ex # NoExc
             THEN Raise(ex.kind, <<"Invalid parameters in YAML file: ">> \o ex.msg)
             ELSE NoExc
    ELSE NoExc

\* check_info.get("check_level", None)
get_level(check_info) ==
    IF "check_level" \in DOMAIN check_info THEN check_info["check_level"] ELSE None

\* The object check_cls(params, level=level_str) makes; id is its identity.
new_instance(check_cls, params, level_str, id) ==
    [cls |-> check_cls.name, kwargs |-> params, level |-> level_str, id |-> id]

\* a method name that leaves the check_id out
method_name_fixed(check_info) == <<"check_">>

\* "check_{}".format(check_id)
method_name_of(check_info) == <<"check_">> \o check_info["check_id"].val

\* def inner(self, ds, c=check_instance): the default of c is evaluated here
inner(c, method_name) == [c |-> c, name |-> method_name]

\* a function object that reads the loop variable check_instance when it is
\* called, as it would without the default argument
call_inner_late(fn, ds) == do_check(check_instance, ds)

\* A call of a function object made by inner: return c.do_check(ds)
call_inner(fn, ds) == do_check(fn.c, ds)

\* the union of the sets in place of their intersection
intersection_union(sets) == UNION Range(sets)

\* set.intersection(*sets), for a list of at least one set
RECURSIVE intersection(_)
intersection(sets) ==
    IF Len(sets) = 1 THEN sets[1] ELSE sets[1] \cap intersection(Tail(sets))

\* list(a_set): the elements in some order
RECURSIVE Orders(_)
Orders(S) ==
    IF S = {} THEN {<<>>}
    ELSE UNION {{<<x>> \o s : s \in Orders(S \ {x})} : x \in S}

\* type(name, (BaseCheck,), class_properties), with supported_ds kept beside
\* the methods
new_type(name, methods, supported_ds) ==
    [type |-> "type",
     val |-> [name |-> name, bases |-> <<"BaseCheck">>, methods |-> methods,
              supported_ds |-> supported_ds]]

---------------------------------------------------------------------------
\* Inputs of get_checker_class

\* Parameters for RequiredParamsTestCheckClass: "one" text or a list, "three"
\* a dict or missing, or no parameter at all
RequiredParamChoices ==
    {PyDict(EmptyDict)} \cup
    {PyDict(a @@ b @@ c @@ d) :
        a \in Has("one", {PyStr(<<"string here">>), PyList(<<"not", "a", "string">>)}),
        b \in Has("two", {PyList(<<"list", "of", "things">>)}),
        c \in Opt("three", {PyDict(EmptyDict)}),
        d \in Has("four", {PyInt(14)})}

BuildIds == {PyStr(<<"one">>), PyStr(<<"two">>)}

BuildEntries ==
    \* the implementations that need no parameter, with and without a level
    {a @@ b @@ c @@ d :
        a \in Has("check_id", BuildIds),
        b \in Has("parameters", {PyDict(EmptyDict)}),
        c \in Has("check_name", {PyStr(get_import_string(n)) :
                    n \in {"SupportDsTestCheckClass1", "SupportDsTestCheckClass2",
                           "DefaultParamsTestCheckClass"}}),
        d \in Opt("check_level", {PyStr(<<"LOW">>)})}
    \cup
    {a @@ b @@ c :
        a \in Has("check_id", {PyStr(<<"one">>)}),
        b \in Has("parameters", RequiredParamChoices),
        c \in Has("check_name", {PyStr(get_import_string("RequiredParamsTestCheckClass"))})}
    \cup
    {a @@ b @@ c :
        a \in Has("check_id", {PyStr(<<"two">>)}),
        b \in Has("parameters", {PyDict("one" :> PyStr(<<"bye">>)), PyDict("one" :> PyInt(1))}),
        c \in Has("check_name", {PyStr(get_import_string("DefaultParamsTestCheckClass"))})}
    \cup
    \* names that do not resolve: no such module, no such member, no module part
    {a @@ b @@ c :
        a \in Has("check_id", {PyStr(<<"one">>)}),
        b \in Has("parameters", {PyDict(EmptyDict)}),
        c \in Has("check_name", {PyStr(<<"nosuch", ".", "module", ".", "Check">>),
                                 PyStr(get_import_string("Missing")),
                                 PyStr(<<"blah">>)})}
    \cup
    \* entries that validate_config rejects
    {"check_id" :> PyStr(<<"one">>)
        @@ "check_name" :> PyStr(get_import_string("SupportDsTestCheckClass1")),
     "check_id" :> PyStr(<<"two">>) @@ "parameters" :> PyDict(EmptyDict)
        @@ "check_name" :> PyStr(get_import_string("SupportDsTestCheckClass2"))
        @@ "check_level" :> PyStr(<<"FOO">>)}

BuildConfigs ==
    {a @@ b : a \in Opt("checks", {PyStr(<<"oops">>), PyList(<<>>)}),
              b \in Opt("suite_name", SuiteNameChoices)}
    \cup
    {a @@ b : a \in Has("checks", {PyList(l) : l \in ListsUpTo(BuildEntries, MaxChecks)}),
              b \in Has("suite_name", {PyStr(<<"test_suite">>)})}

\* The YAML files there are, by name, as yaml.load parses them
Files ==
    <<"suite", ".", "yml">> :>
        PyDict("suite_name" :> PyStr(<<"test_suite">>)
               @@ "checks" :> PyList(<<"check_id" :> PyStr(<<"one">>)
                                       @@ "parameters" :> PyDict(EmptyDict)
                                       @@ "check_name" :> PyStr(get_import_string("SupportDsTestCheckClass1"))>>))
    @@ <<"list", ".", "yml">> :> PyList(<<>>)

BuildInputs ==
    {PyDict(c) : c \in BuildConfigs}
    \cup {PyStr(f) : f \in (DOMAIN Files) \cup {<<"nofile", ".", "yml">>}}

\* Lines 24-29: [exc, config]
load_config(arg) ==
    IF isinstance(arg, "str")
    THEN IF arg.val \notin DOMAIN Files
         THEN [exc |-> Raise("FileNotFoundError", arg.val), config |-> EmptyDict]
         ELSE IF ~isinstance(Files[arg.val], "dict")
         THEN [exc |-> Raise("TypeError", <<"Could not parse dictionary from YAML file">>),
               config |-> EmptyDict]
         ELSE [exc |-> NoExc, config |-> Files[arg.val].val]
    ELSE [exc |-> NoExc, config |-> arg.val]

---------------------------------------------------------------------------
\* The state machine


Init ==
    /\ pc = "idle"
    /\ op = "none"
    /\ config = EmptyDict
    /\ exc = NoExc
    /\ i = 0
    /\ class_properties = EmptyDict
    /\ supported_ds_sets = <<>>
    /\ check_instance = None
    /\ imports = <<>>
    /\ ctor_calls = <<>>
    /\ result = None

\* A direct call YamlParser.validate_config(c)
ValidateConfig ==
    /\ pc = "idle"
    /\ \E c \in ValidateInputs :
         /\ op' = "validate_config"
         /\ config' = c
         /\ exc' = validate_config(c)
         /\ pc' = IF validate_config(c) = NoExc THEN "returned" ELSE "raised"
    /\ UNCHANGED <<i, class_properties, supported_ds_sets, check_instance,
                   imports, ctor_calls, result>>

\* get_checker_class(arg), lines 24-36: the configuration is loaded and
\* validated, and the loop is entered
GetCheckerClass ==
    /\ pc = "idle"
    /\ \E arg \in BuildInputs :
         LET l == load_config(arg)
             v == IF l.exc # NoExc THEN l.exc ELSE validate_config(l.config)
         IN  /\ op' = "get_checker_class"
             /\ config' = l.config
             /\ exc' = v
             /\ pc' = IF v = NoExc THEN "loop" ELSE "raised"
             /\ i' = IF v = NoExc THEN 1 ELSE 0
    /\ UNCHANGED <<class_properties, supported_ds_sets, check_instance,
                   imports, ctor_calls, result>>

\* One pass of the for loop, lines 38-71.  The constructor of the
\* implementation is not in the source: it returns or it raises.
LoopBody ==
    /\ pc = "loop"
    /\ i <= Len(config["checks"].val)
    /\ \E ctor_returns \in BOOLEAN :
         LET check_info == config["checks"].val[i]
             method_name == method_name_of(check_info)
             r == resolve(check_info["check_name"].val)
             check_cls == r.cls
             params == merged_params(check_cls, check_info)
             p == validate_params(check_cls, params)
             level_str == get_level(check_info)
             instance == new_instance(check_cls, params, level_str, Len(ctor_calls) + 1)
         IN  /\ imports' = Append(imports, r.name)
             /\ IF r.exc # NoExc
                THEN /\ exc' = r.exc
                     /\ pc' = "raised"
                     /\ UNCHANGED <<i, class_properties, supported_ds_sets,
                                    check_instance, ctor_calls>>
                ELSE IF p # NoExc
                THEN /\ exc' = p
                     /\ pc' = "raised"
                     /\ UNCHANGED <<i, class_properties, supported_ds_sets,
                                    check_instance, ctor_calls>>
                ELSE /\ ctor_calls' = Append(ctor_calls,
                            [cls |-> check_cls.name, params |-> params, level |-> level_str])
                     /\ IF ~ctor_returns
                        THEN /\ exc' = Raise("Exception", <<"raised by ", check_cls.name>>)
                             /\ pc' = "raised"
                             /\ UNCHANGED <<i, class_properties, supported_ds_sets,
                                            check_instance>>
                        ELSE /\ check_instance' = instance
                             /\ class_properties' =
                                    update(class_properties,
                                           method_name :> inner(instance, method_name))
                             /\ supported_ds_sets' =
                                    Append(supported_ds_sets, Range(check_cls.supported_ds))
                             /\ i' = i + 1
                             /\ UNCHANGED <<pc, exc>>
    /\ UNCHANGED <<op, config, result>>

\* Lines 74-76, after the last pass of the loop
ReturnType ==
    /\ pc = "loop"
    /\ i > Len(config["checks"].val)
    /\ \E supported_ds \in Orders(intersection(supported_ds_sets)) :
         result' = new_type(config["suite_name"].val, class_properties, supported_ds)
    /\ pc' = "returned"
    /\ UNCHANGED <<op, config, exc, i, class_properties, supported_ds_sets,
                   check_instance, imports, ctor_calls>>

Next == ValidateConfig \/ GetCheckerClass \/ LoopBody \/ ReturnType

Spec == Init /\ [][Next]_vars

---------------------------------------------------------------------------
\* What the properties say of a configuration, stated on the configuration
\* itself and not through validate_config

MissingField(d, k) == k \notin DOMAIN d

GoodField(d, k, t) == k \in DOMAIN d /\ d[k].type = t

IllTypedField(d, k, t) == k \in DOMAIN d /\ d[k].type # t

Levels == {<<"HIGH">>, <<"MEDIUM">>, <<"LOW">>}

NoLevel(e) == "check_level" \notin DOMAIN e

TextLevel(e) == "check_level" \in DOMAIN e /\ e["check_level"].type = "str"

GoodLevel(e) == NoLevel(e) \/ (TextLevel(e) /\ e["check_level"].val \in Levels)

RequiredGood(e) ==
    /\ GoodField(e, "check_id", "str")
    /\ GoodField(e, "parameters", "dict")
    /\ GoodField(e, "check_name", "str")

WellFormedEntry(e) == RequiredGood(e) /\ GoodLevel(e)

TopGood(cfg) == GoodField(cfg, "checks", "list") /\ GoodField(cfg, "suite_name", "str")

Entries(cfg) == cfg["checks"].val

ValidConfig(cfg) ==
    /\ TopGood(cfg)
    /\ Len(Entries(cfg)) >= 1
    /\ \A k \in 1..Len(Entries(cfg)) : WellFormedEntry(Entries(cfg)[k])

\* validate_config was called on config and has ended
Validated == op = "validate_config" /\ pc \in {"returned", "raised"}

MissingMsg(k) == <<"Required key '", k, "' not present">>

EmptyMsg == <<"List of checks cannot be empty">>

---------------------------------------------------------------------------
\* C1

\* C1 as claimed: validate_config raises ValueError whenever checks or
\* suite_name is absent, and whenever checks is an empty list, whatever the
\* other fields hold.
C1_AsClaimed ==
    Validated =>
        /\ (MissingField(config, "checks") \/ MissingField(config, "suite_name"))
              => exc.kind = "ValueError"
        /\ (GoodField(config, "checks", "list") /\ Len(Entries(config)) = 0)
              => exc.kind = "ValueError"

\* C1, amended: validate_config fails whenever checks or suite_name is absent
\* or checks is an empty list.  The failure is the ValueError of the missing
\* key when checks is absent, or when suite_name is absent and checks is a
\* list; it is the ValueError of the empty list when checks is empty and
\* suite_name is text; it is a TypeError when the other top-level field is
\* present with the wrong type and is checked first (checks not a list with
\* suite_name absent, suite_name not text with checks empty).
C1_MissingOrEmpty ==
    Validated =>
        /\ MissingField(config, "checks")
              => exc = Raise("ValueError", MissingMsg("checks"))
        /\ (MissingField(config, "suite_name") /\ GoodField(config, "checks", "list"))
              => exc = Raise("ValueError", MissingMsg("suite_name"))
        /\ (MissingField(config, "suite_name") /\ IllTypedField(config, "checks", "list"))
              => exc.kind = "TypeError"
        /\ (GoodField(config, "checks", "list") /\ Len(Entries(config)) = 0
                /\ GoodField(config, "suite_name", "str"))
              => exc = Raise("ValueError", EmptyMsg)
        /\ (GoodField(config, "checks", "list") /\ Len(Entries(config)) = 0
                /\ IllTypedField(config, "suite_name", "str"))
              => exc.kind = "TypeError"

\* suite_name is absent beside a list of entries that are themselves faulty:
\* the missing key is what is reported
C1_Witness ==
    /\ Validated
    /\ MissingField(config, "suite_name")
    /\ GoodField(config, "checks", "list")
    /\ Len(Entries(config)) >= 1
    /\ ~WellFormedEntry(Entries(config)[1])
    /\ exc = Raise("ValueError", MissingMsg("suite_name"))

---------------------------------------------------------------------------
\* C2

\* C2 as claimed: validate_config raises nothing when checks is a list with at
\* least one entry and suite_name is text.
C2_AsClaimed ==
    (Validated /\ TopGood(config) /\ Len(Entries(config)) >= 1) => exc = NoExc

\* C2, amended: validate_config raises nothing when checks is a list with at
\* least one entry, suite_name is text, and every entry has a text check_id, a
\* dict parameters, a text check_name and, if it has a check_level, one of
\* "HIGH", "MEDIUM", "LOW".
C2_ValidSucceeds ==
    (Validated /\ ValidConfig(config)) => (exc = NoExc /\ pc = "returned")

C2_Witness ==
    /\ Validated
    /\ ValidConfig(config)
    /\ Len(Entries(config)) >= 2
    /\ \E k \in 1..Len(Entries(config)) : ~NoLevel(Entries(config)[k])
    /\ \E k \in 1..Len(Entries(config)) : NoLevel(Entries(config)[k])
    /\ exc = NoExc

---------------------------------------------------------------------------
\* C3

EntryIllTyped(e) ==
    \/ IllTypedField(e, "check_id", "str")
    \/ IllTypedField(e, "parameters", "dict")
    \/ IllTypedField(e, "check_name", "str")

HasIllTyped(cfg) ==
    \/ IllTypedField(cfg, "checks", "list")
    \/ IllTypedField(cfg, "suite_name", "str")
    \/ /\ GoodField(cfg, "checks", "list")
       /\ \E k \in 1..Len(Entries(cfg)) : EntryIllTyped(Entries(cfg)[k])

EntryMissing(e) ==
    \/ MissingField(e, "check_id")
    \/ MissingField(e, "parameters")
    \/ MissingField(e, "check_name")

\* a required key is missing, or a text check_level is none of the three
HasValueProblem(cfg) ==
    \/ MissingField(cfg, "checks")
    \/ MissingField(cfg, "suite_name")
    \/ /\ GoodField(cfg, "checks", "list")
       /\ \E k \in 1..Len(Entries(cfg)) :
            \/ EntryMissing(Entries(cfg)[k])
            \/ (TextLevel(Entries(cfg)[k]) /\ ~GoodLevel(Entries(cfg)[k]))

\* C3 as claimed: whenever a top-level field or a field of an entry is present
\* with the wrong type, validate_config raises TypeError.
C3_AsClaimed ==
    (Validated /\ HasIllTyped(config)) => exc.kind = "TypeError"

\* C3, amended: whenever a top-level field or a field of an entry is present
\* with the wrong type, validate_config fails; it fails with TypeError when no
\* required key is missing from the configuration or from an entry and no
\* text check_level is outside the three values.
C3_WrongTypeFails ==
    (Validated /\ HasIllTyped(config)) =>
        /\ pc = "raised"
        /\ exc.kind \in {"TypeError", "ValueError"}
        /\ ~HasValueProblem(config) => exc.kind = "TypeError"

\* the second entry has parameters of the wrong type, the first is good
C3_Witness ==
    /\ Validated
    /\ TopGood(config)
    /\ Len(Entries(config)) >= 2
    /\ WellFormedEntry(Entries(config)[1])
    /\ IllTypedField(Entries(config)[2], "parameters", "dict")
    /\ ~HasValueProblem(config)
    /\ exc.kind = "TypeError"

---------------------------------------------------------------------------
\* C9

LevelMsg == <<"Check level must be one of ", "HIGH", ", ", "MEDIUM", ", ", "LOW">>

LevelTypeMsg == <<"Value for field '", "check_level", "' is not of type '", "str", "'">>

\* every entry before k is well formed, and entry k is but for its level
FirstBadLevel(cfg, k) ==
    /\ TopGood(cfg)
    /\ k \in 1..Len(Entries(cfg))
    /\ \A j \in 1..(k - 1) : WellFormedEntry(Entries(cfg)[j])
    /\ RequiredGood(Entries(cfg)[k])
    /\ ~GoodLevel(Entries(cfg)[k])

\* C9 as claimed, in a configuration with nothing else wrong: an entry whose
\* check_level is present and is anything but one of the three values makes
\* validate_config raise ValueError.
C9_AsClaimed ==
    Validated => \A k \in 1..MaxChecks : FirstBadLevel(config, k) => exc.kind = "ValueError"

\* C9, amended: when the first fault validate_config meets is a check_level,
\* a text check_level that is none of "HIGH", "MEDIUM", "LOW" raises the
\* ValueError of the level and a check_level that is not text raises the
\* TypeError of the field; and validate_config raises neither of the two
\* unless some entry has a check_level that is not one of the three values.
C9_CheckLevel ==
    Validated =>
        /\ \A k \in 1..MaxChecks :
             FirstBadLevel(config, k) =>
                 IF TextLevel(Entries(config)[k])
                 THEN exc = Raise("ValueError", LevelMsg)
                 ELSE exc = Raise("TypeError", LevelTypeMsg)
        /\ exc.msg \in {LevelMsg, LevelTypeMsg} =>
             /\ GoodField(config, "checks", "list")
             /\ \E k \in 1..Len(Entries(config)) : ~GoodLevel(Entries(config)[k])

\* the second entry has the level "FOO" and the level error is raised
C9_Witness ==
    /\ Validated
    /\ FirstBadLevel(config, 2)
    /\ ~NoLevel(Entries(config)[1])
    /\ TextLevel(Entries(config)[2])
    /\ exc = Raise("ValueError", LevelMsg)

---------------------------------------------------------------------------
\* What the properties say of a call of get_checker_class

Building == op = "get_checker_class"

Built == Building /\ pc = "returned"

\* the class that entry k names, and its module
ClassOf(k) == resolve(Entries(config)[k]["check_name"].val).cls

Resolves(k) == resolve(Entries(config)[k]["check_name"].val).exc = NoExc

EntryParams(k) == Entries(config)[k]["parameters"].val

\* the passes of the loop that have been made, the one that raised included
Passes == 1..Len(imports)

\* the instance made by the k-th call of a constructor
InstanceOf(k) ==
    [cls |-> ctor_calls[k].cls, kwargs |-> ctor_calls[k].params,
     level |-> ctor_calls[k].level, id |-> k]

MethodName(k) == <<"check_">> \o Entries(config)[k]["check_id"].val

\* the last entry, among the first n, that binds the method name m
LastEntryFor(m, n) ==
    CHOOSE k \in 1..n : MethodName(k) = m /\ \A j \in (k + 1)..n : MethodName(j) # m

---------------------------------------------------------------------------
\* C4

\* C4: the supported_ds of the generated type, read as a set, is the
\* intersection of the supported_ds of the implementations of all the entries,
\* those whose method was overwritten included; it is empty when one of the
\* implementations has an empty supported_ds.
C4_SupportedDsIntersection ==
    Built =>
        LET ds == result.val.supported_ds
            n == Len(Entries(config))
        IN  /\ Range(ds) = {d \in 1..4 : \A k \in 1..n : d \in Range(ClassOf(k).supported_ds)}
            /\ Len(ds) = Cardinality(Range(ds))
            /\ (\E k \in 1..n : ClassOf(k).supported_ds = <<>>) => ds = <<>>

\* the configuration of test_supported_ds: two entries of the same check_id,
\* of supported_ds [1, 2, 3] and [2, 3, 4]
C4_Witness ==
    /\ Built
    /\ Len(Entries(config)) = 2
    /\ MethodName(1) = MethodName(2)
    /\ ClassOf(1).supported_ds = <<1, 2, 3>>
    /\ ClassOf(2).supported_ds = <<2, 3, 4>>
    /\ Range(result.val.supported_ds) = {2, 3}

---------------------------------------------------------------------------
\* C5

\* defaults overlaid by the parameters of entry k
Merged(k) ==
    [key \in (DOMAIN ClassOf(k).defaults) \cup (DOMAIN EntryParams(k)) |->
        IF key \in DOMAIN EntryParams(k) THEN EntryParams(k)[key]
        ELSE ClassOf(k).defaults[key]]

Declares(k) == Resolves(k) /\ "required_parameters" \in DOMAIN ClassOf(k)

Required(k) == ClassOf(k).required_parameters

ParamAbsent(k, j) == Required(k)[j][1] \notin DOMAIN Merged(k)

ParamIllTyped(k, j) ==
    /\ Required(k)[j][1] \in DOMAIN Merged(k)
    /\ Merged(k)[Required(k)[j][1]].type # Required(k)[j][2]

ParamBad(k, j) == ParamAbsent(k, j) \/ ParamIllTyped(k, j)

\* pair j is the first required pair, in the order of the declaration, that
\* the merged parameters of entry k do not meet
FirstBadParam(k, j) ==
    /\ j \in 1..Len(Required(k))
    /\ ParamBad(k, j)
    /\ \A h \in 1..(j - 1) : ~ParamBad(k, h)

\* C5 as claimed: when a required name is absent from the merged parameters of
\* the entry, get_checker_class fails with ValueError.
C5_AsClaimed ==
    Building =>
        \A k \in Passes :
            (Declares(k) /\ \E j \in 1..Len(Required(k)) : ParamAbsent(k, j))
                => (pc = "raised" /\ exc.kind = "ValueError")

\* C5, amended: the required pairs are checked in the order of their
\* declaration against the merged parameters and the first pair that is not
\* met decides: get_checker_class fails there, before the implementation is
\* instantiated, with ValueError if the name is absent and with TypeError if
\* its value has the wrong type, the message saying that the parameters are
\* invalid; when every required name is present with the right type the
\* implementation is instantiated with the merged parameters.
C5_RequiredParameters ==
    Building =>
        \A k \in Passes :
            Declares(k) =>
                /\ \A j \in 1..Len(Required(k)) :
                     FirstBadParam(k, j) =>
                        /\ pc = "raised"
                        /\ i = k
                        /\ Len(ctor_calls) = k - 1
                        /\ exc.kind = IF ParamAbsent(k, j) THEN "ValueError" ELSE "TypeError"
                        /\ exc.msg[1] = "Invalid parameters in YAML file: "
                        /\ exc.msg[3] = Required(k)[j][1]
                /\ (\A j \in 1..Len(Required(k)) : ~ParamBad(k, j)) =>
                        /\ Len(ctor_calls) >= k
                        /\ ctor_calls[k].params = Merged(k)

\* "three" is missing and the other required parameters are good
C5_Witness ==
    /\ Building
    /\ pc = "raised"
    /\ i \in Passes
    /\ Declares(i)
    /\ FirstBadParam(i, 3)
    /\ ParamAbsent(i, 3)
    /\ exc.kind = "ValueError"

---------------------------------------------------------------------------
\* C6

Hello == PyStr(<<"hello">>)

\* C6: the parameters given to the constructor of the implementation of an
\* entry are the defaults of the implementation overwritten by the parameters
\* of the entry: a key of the entry has the value of the entry, a key of the
\* defaults alone has the default, there is no other key; with the defaults
\* {"one": "hello"} and no "one" in the entry the generated method returns
\* "hello".
C6_DefaultsOverlaidByEntry ==
    Building =>
        /\ \A k \in 1..Len(ctor_calls) :
             LET params == ctor_calls[k].params
                 defaults == ClassOf(k).defaults
             IN  /\ DOMAIN params = (DOMAIN defaults) \cup (DOMAIN EntryParams(k))
                 /\ \A key \in DOMAIN EntryParams(k) : params[key] = EntryParams(k)[key]
                 /\ \A key \in (DOMAIN defaults) \ (DOMAIN EntryParams(k)) :
                        params[key] = defaults[key]
        /\ pc = "returned" =>
             \A m \in DOMAIN result.val.methods :
                LET k == LastEntryFor(m, Len(Entries(config)))
                IN  (ClassOf(k).defaults = ("one" :> Hello) /\ "one" \notin DOMAIN EntryParams(k))
                        => call_inner(result.val.methods[m], "dataset") = Hello

\* one entry leaves "one" to the default and the method returns "hello";
\* another entry sets "one" and its value is the one the constructor gets
C6_Witness ==
    /\ Built
    /\ Len(Entries(config)) = 2
    /\ ClassOf(1).defaults = ("one" :> Hello)
    /\ EntryParams(1) = EmptyDict
    /\ ctor_calls[1].params = ("one" :> Hello)
    /\ call_inner(result.val.methods[MethodName(1)], "dataset") = Hello
    /\ ClassOf(2).defaults = ("one" :> Hello)
    /\ EntryParams(2) = ("one" :> PyStr(<<"bye">>))
    /\ ctor_calls[2].params = ("one" :> PyStr(<<"bye">>))

---------------------------------------------------------------------------
\* C7

\* C7: a generated method calls do_check of the instance made in the pass of
\* the loop that bound it, with the merged parameters and the level of that
\* entry, also after later passes have made other instances.
C7_OwnInstance ==
    Building =>
        \A m \in DOMAIN class_properties :
            LET k == LastEntryFor(m, Len(supported_ds_sets))
                fn == class_properties[m]
            IN  /\ call_inner(fn, "dataset") = do_check(InstanceOf(k), "dataset")
                /\ fn.c = InstanceOf(k)
                /\ fn.c.kwargs = Merged(k)
                /\ fn.c.level = get_level(Entries(config)[k])
                /\ fn.name = m

\* after the last pass, the method of the first entry still has the first
\* instance, which is not the one check_instance now refers to
C7_Witness ==
    /\ Built
    /\ Len(Entries(config)) >= 2
    /\ MethodName(1) # MethodName(2)
    /\ class_properties[MethodName(1)].c.id = 1
    /\ check_instance.id = Len(Entries(config))
    /\ call_inner(class_properties[MethodName(1)], "dataset")
         # do_check(check_instance, "dataset")

---------------------------------------------------------------------------
\* C8

CheckIds == {Entries(config)[k]["check_id"].val : k \in 1..Len(Entries(config))}

\* C8 as claimed: the generated type has as many check methods as the
\* configuration has entries.
C8_AsClaimed ==
    Built =>
        /\ result.val.name = config["suite_name"].val
        /\ result.val.bases = <<"BaseCheck">>
        /\ Cardinality(DOMAIN result.val.methods) = Len(Entries(config))

\* C8, amended: the generated type has the suite_name as its name, derives
\* from the base checker and has one method check_<check_id> for each distinct
\* check_id, which calls the instance of the last entry of that check_id; the
\* number of its check methods is the number of distinct check_id values, and
\* is the number of entries when no two entries share a check_id.
C8_GeneratedType ==
    Built =>
        LET methods == result.val.methods
            n == Len(Entries(config))
        IN  /\ result.val.name = config["suite_name"].val
            /\ result.val.bases = <<"BaseCheck">>
            /\ DOMAIN methods = {<<"check_">> \o id : id \in CheckIds}
            /\ Cardinality(DOMAIN methods) = Cardinality(CheckIds)
            /\ Cardinality(CheckIds) = n => Cardinality(DOMAIN methods) = n
            /\ \A m \in DOMAIN methods : methods[m].c.id = LastEntryFor(m, n)

\* two entries of the same check_id give a type of one method, which calls
\* the instance of the second
C8_Witness ==
    /\ Built
    /\ Len(Entries(config)) = 2
    /\ Cardinality(CheckIds) = 1
    /\ Cardinality(DOMAIN result.val.methods) = 1
    /\ result.val.methods[MethodName(2)].c.id = 2
    /\ result.val.name = <<"test_suite">>

---------------------------------------------------------------------------
\* C10

\* the name given to import_module for entry k
ModuleNameOf(k) ==
    LET parts == split(Entries(config)[k]["check_name"].val, ".")
    IN  join(".", SubSeq(parts, 1, Len(parts) - 1))

C10_Ordered ==
    Building =>
        /\ (imports # <<>> \/ ctor_calls # <<>>) => ValidConfig(config)
        /\ \A k \in Passes : k <= Len(Entries(config)) /\ imports[k] = ModuleNameOf(k)
        /\ Len(ctor_calls) <= Len(imports)
        /\ \A k \in 1..Len(ctor_calls) : Resolves(k) /\ ctor_calls[k].cls = ClassOf(k).name
        /\ pc = "loop" => (Len(imports) = i - 1 /\ Len(ctor_calls) = i - 1)
        /\ pc = "raised" => (result = None /\ Len(imports) = i /\ Len(ctor_calls) \in {i - 1, i})
        /\ result # None => (pc = "returned" /\ Len(ctor_calls) = Len(Entries(config)))

C10_Steps ==
    /\ pc = "raised" => UNCHANGED <<imports, ctor_calls, result, pc>>
    /\ Len(imports') <= Len(imports) + 1
    /\ Len(ctor_calls') <= Len(ctor_calls) + 1
    /\ SubSeq(imports', 1, Len(imports)) = imports
    /\ SubSeq(ctor_calls', 1, Len(ctor_calls)) = ctor_calls

\* C10: get_checker_class imports and instantiates nothing until
\* validate_config has accepted the whole configuration; the entries are then
\* taken in the order of the list, one more at each pass; once a pass raises,
\* nothing more is imported or instantiated and no type is returned.
C10_FailFast == [](C10_Ordered) /\ [][C10_Steps]_vars

\* the first of two entries does not resolve: one import, no instance, no type
C10_Witness ==
    /\ Building
    /\ pc = "raised"
    /\ ValidConfig(config)
    /\ Len(Entries(config)) = 2
    /\ i = 1
    /\ Len(imports) = 1
    /\ ctor_calls = <<>>
    /\ result = None

====
